---- MODULE Spec2Model ----
(***************************************************************************)
(* Model of the Intelligent Content API (FastAPI + SQLAlchemy).            *)
(*                                                                         *)
(* State: the users and contents tables, their auto-increment counters,    *)
(* the wall clock the JWT expiry is compared with, and the request and     *)
(* response of the HTTP call handled by the step that led to the state     *)
(* (last).  Two history variables record what the tables no longer show:   *)
(* credentials, the (email, password) pairs that created a user, and       *)
(* deleted, the ids of the content rows removed.  One action per endpoint  *)
(* of app/api/v1.py; each action is the whole handler, its                 *)
(* get_current_user dependency included.                                   *)
(*                                                                         *)
(* For the claims about requests served in parallel, reqs holds the        *)
(* requests in flight, each at the await it is suspended at, and the       *)
(* handlers are taken one await at a time (SpecConc).                      *)
(***************************************************************************)
EXTENDS FiniteSets, Integers, Sequences, TLC

VARIABLES users, nextUserId, credentials, contents, nextContentId, deleted, now, last,
          reqs

vars == <<users, nextUserId, credentials, contents, nextContentId, deleted, now, last,
         reqs>>

----------------------------------------------------------------------------
(* Bounds of the model.                                                    *)

MaxContents == 3
MaxAuthContents == 1
MaxTicks == 1
TickMinutes == 40
MaxRequests == 2
MaxConcContents == 1

(* Program constants.                                                      *)

ACCESS_TOKEN_EXPIRE_MINUTES == 30
BcryptLimit == 72

Null == "null"

Emails == {"a@x.io", "b@x.io"}

RawTexts == {"Great product", ""}

----------------------------------------------------------------------------
(* Passwords.  A password is given by the content of its first             *)
(* min(len, 72) bytes (pre), its length in bytes (len) and the content of  *)
(* the bytes after the 72nd (suf, "" when there are none).  ASCII only, so *)
(* characters and bytes coincide.                                          *)

Passwords ==
    { [pre |-> "secret", len |-> 6, suf |-> ""],
      [pre |-> "long72", len |-> 80, suf |-> "tail-one"],
      [pre |-> "long72", len |-> 80, suf |-> "tail-two"] }

(* password[:72]                                                           *)
Truncate72(password) ==
    [pre |-> password.pre,
     len |-> IF password.len > BcryptLimit THEN BcryptLimit ELSE password.len,
     suf |-> ""]

(* bcrypt: the digest depends on the first 72 bytes of the secret only.    *)
(* The salt is left out: it never changes what verify answers.             *)
BcryptDigest(secret) == [bcrypt |-> Truncate72(secret)]

get_password_hash(password) ==
    LET p == IF password.len > BcryptLimit THEN Truncate72(password) ELSE password
    IN  BcryptDigest(p)

verify_password(plain_password, hashed_password) ==
    BcryptDigest(plain_password) = hashed_password

----------------------------------------------------------------------------
(* str(user.id) and int(user_id).                                          *)

StrOf(n) == CASE n = 1 -> "1" [] n = 2 -> "2" [] n = 3 -> "3" [] n = 4 -> "4"
              [] OTHER -> "0"

IsNumeric(s) == s \in {"0", "1", "2", "3", "4"}

IntOf(s) == CASE s = "1" -> 1 [] s = "2" -> 2 [] s = "3" -> 3 [] s = "4" -> 4
              [] OTHER -> 0

(* Bearer tokens.  kind "missing": no Authorization header; "malformed":   *)
(* not a JWT signed with SECRET_KEY; "jwt": a signed payload {sub, exp}.   *)

NoSub == "no-sub"

MissingToken == [kind |-> "missing", sub |-> NoSub, exp |-> 0]
MalformedToken == [kind |-> "malformed", sub |-> NoSub, exp |-> 0]

create_access_token(sub, expires_delta) ==
    [kind |-> "jwt", sub |-> sub, exp |-> now + expires_delta]

Subs == {NoSub} \cup {StrOf(n) : n \in 1..(Cardinality(Emails) + 1)}

Times == {k * TickMinutes : k \in 0..MaxTicks}

Expiries == {t + ACCESS_TOKEN_EXPIRE_MINUTES : t \in Times}

Tokens == {MissingToken, MalformedToken}
          \cup [kind : {"jwt"}, sub : Subs, exp : Expiries]

----------------------------------------------------------------------------
(* HTTP outcomes.                                                          *)

Resp(status, detail) == [status |-> status, detail |-> detail]

NotAuthenticated == Resp(401, "Not authenticated")
credentials_exception == Resp(401, "Could not validate credentials")
InactiveUser == Resp(400, "Inactive user")
EmailAlreadyRegistered == Resp(400, "Email already registered.")
IncorrectEmailOrPassword == Resp(401, "Incorrect email or password")
ContentNotFound == Resp(404, "Content not found or you do not own this content")
InternalServerError == Resp(500, "Internal Server Error")

----------------------------------------------------------------------------
(* get_current_user: the dependency of every protected endpoint.           *)
(* OAuth2PasswordBearer answers 401 "Not authenticated" when there is no   *)
(* Authorization header; jwt.decode raises JWTError on a bad signature and *)
(* on exp < now; int(user_id) raises ValueError on a non-numeric subject,  *)
(* which no handler catches.                                               *)

UserById(id) == {u \in users : u.id = id}

(* Variant: the is_active check is missing.                                *)
get_current_user_NoActiveCheck(token) ==
    IF token.kind = "missing" THEN [ok |-> FALSE, resp |-> NotAuthenticated, id |-> 0]
    ELSE IF token.kind = "malformed" \/ token.exp < now
        THEN [ok |-> FALSE, resp |-> credentials_exception, id |-> 0]
    ELSE IF token.sub = NoSub
        THEN [ok |-> FALSE, resp |-> credentials_exception, id |-> 0]
    ELSE IF ~IsNumeric(token.sub)
        THEN [ok |-> FALSE, resp |-> InternalServerError, id |-> 0]
    ELSE IF UserById(IntOf(token.sub)) = {}
        THEN [ok |-> FALSE, resp |-> credentials_exception, id |-> 0]
    ELSE [ok |-> TRUE, resp |-> Resp(200, "OK"), id |-> IntOf(token.sub)]

get_current_user(token) ==
    IF token.kind = "missing" THEN [ok |-> FALSE, resp |-> NotAuthenticated, id |-> 0]
    ELSE IF token.kind = "malformed" \/ token.exp < now
        THEN [ok |-> FALSE, resp |-> credentials_exception, id |-> 0]
    ELSE IF token.sub = NoSub
        THEN [ok |-> FALSE, resp |-> credentials_exception, id |-> 0]
    ELSE IF ~IsNumeric(token.sub)
        THEN [ok |-> FALSE, resp |-> InternalServerError, id |-> 0]
    ELSE IF UserById(IntOf(token.sub)) = {}
        THEN [ok |-> FALSE, resp |-> credentials_exception, id |-> 0]
    ELSE LET user == CHOOSE u \in UserById(IntOf(token.sub)) : TRUE
         IN  IF ~user.is_active
                THEN [ok |-> FALSE, resp |-> InactiveUser, id |-> 0]
                ELSE [ok |-> TRUE, resp |-> Resp(200, "OK"), id |-> user.id]

----------------------------------------------------------------------------
(* response_model serialization: FastAPI validates the returned object     *)
(* against the response model; a required field the object lacks is a      *)
(* ResponseValidationError, answered as 500.                               *)

UserCreateFields == {"email", "password"}

UserModelAttrs == {"id", "email", "hashed_password", "is_active", "created_at"}

ContentBaseFields == {"id", "raw_content", "owner_id", "created_at"}

ContentAttrs == {"id", "raw_content", "summary", "sentiment", "created_at", "owner_id"}

SignupResponseModel == UserCreateFields

serialize_response(requiredFields, attrs, okResp) ==
    IF requiredFields \subseteq attrs THEN okResp ELSE InternalServerError

----------------------------------------------------------------------------
(* The last request and its response.                                      *)

NoToken == [kind |-> "none", sub |-> NoSub, exp |-> 0]
NoPassword == [pre |-> "", len |-> 0, suf |-> ""]
NoProvider == [outcome |-> "none", json |-> [t |-> "none", items |-> <<>>]]

NoRequest ==
    [op |-> "none", tok |-> NoToken, email |-> "", password |-> NoPassword,
     cid |-> 0, raw |-> "", sumOut |-> NoProvider, sentOut |-> NoProvider,
     resp |-> Resp(0, ""), uid |-> 0, rows |-> {}, token |-> NoToken,
     analyzer |-> "none", newId |-> 0]

----------------------------------------------------------------------------
(* The Content Analyzer (app/services/llm_service.py).                     *)
(*                                                                         *)
(* A provider outcome is what one HTTP POST produced: a timeout, an error  *)
(* status, a body that is not JSON, or a JSON value.  JSON values are      *)
(* records tagged with their type t.                                       *)

JNone == [t |-> "none", items |-> <<>>]
JDict == [t |-> "dict", items |-> <<>>]
JList(items) == [t |-> "list", items |-> items]

(* elements of a summarization response                                    *)
SumDict(text) == [t |-> "dict", has |-> TRUE, summary_text |-> text]
SumDictNoKey == [t |-> "dict", has |-> FALSE, summary_text |-> ""]
SumStr == [t |-> "str", has |-> FALSE, summary_text |-> ""]

(* entries of a classification response                                    *)
NoLabel == [has |-> FALSE, str |-> FALSE, v |-> ""]
Label(v) == [has |-> TRUE, str |-> TRUE, v |-> v]
NonStrLabel == [has |-> TRUE, str |-> FALSE, v |-> "7"]
NoScore == [has |-> FALSE, num |-> FALSE, v |-> 0]
Score(v) == [has |-> TRUE, num |-> TRUE, v |-> v]
NonNumScore == [has |-> TRUE, num |-> FALSE, v |-> 0]

Classification(label, score) == [t |-> "dict", label |-> label, score |-> score]
NotAnObject == [t |-> "num", label |-> NoLabel, score |-> NoScore]

Inner(t, items) == [t |-> t, items |-> items]

SummaryJsons ==
    { JDict, JList(<<>>), JList(<<SumDict("Positive review of product")>>),
      JList(<<SumDict("")>>), JList(<<SumDictNoKey>>), JList(<<SumStr>>) }

SentimentJsons ==
    { JDict, JList(<<>>),
      JList(<<Inner("list", <<>>)>>),
      JList(<<Inner("dict", <<>>)>>),
      JList(<<Inner("list", <<Classification(Label("positive"), Score(90)),
                              Classification(Label("NEGATIVE"), Score(10))>>)>>),
      JList(<<Inner("list", <<Classification(Label("Negative"), Score(80)),
                              Classification(Label("neutral"), Score(20))>>)>>),
      JList(<<Inner("list", <<Classification(Label("NEUTRAL"), Score(70))>>)>>),
      JList(<<Inner("list", <<Classification(Label("mixed"), Score(60))>>)>>),
      JList(<<Inner("list", <<Classification(NoLabel, Score(60))>>)>>),
      JList(<<Inner("list", <<Classification(Label("POSITIVE"), NonNumScore)>>)>>),
      JList(<<Inner("list", <<Classification(NonStrLabel, Score(60))>>)>>),
      JList(<<Inner("list", <<NotAnObject>>)>>) }

FailedOutcomes ==
    { [outcome |-> o, json |-> JNone] : o \in {"timeout", "http_error", "invalid_json"} }

SummaryOutcomes == FailedOutcomes \cup { [outcome |-> "ok", json |-> j] : j \in SummaryJsons }

SentimentOutcomes == FailedOutcomes \cup { [outcome |-> "ok", json |-> j] : j \in SentimentJsons }

(* query_model: every exception of the POST is caught and answered None.   *)
query_model(out) == IF out.outcome = "ok" THEN out.json ELSE JNone

(* Python truthiness of a JSON value.                                      *)
Truthy(j) == \/ j.t = "list" /\ Len(j.items) > 0
             \/ j.t = "dict" /\ j # JDict
             \/ j.t \in {"str", "num"}

(* str.upper() on the labels of the model.                                 *)
Upper(s) == CASE s \in {"positive", "Positive", "POSITIVE"} -> "POSITIVE"
              [] s \in {"negative", "Negative", "NEGATIVE"} -> "NEGATIVE"
              [] s \in {"neutral", "Neutral", "NEUTRAL"} -> "NEUTRAL"
              [] s = "mixed" -> "MIXED"
              [] OTHER -> s

(* class Sentiment(enum.Enum): names and their values.                     *)
SentimentNames == {"POSITIVE", "NEGATIVE", "NEUTRAL"}

SentimentValue(name) == CASE name = "POSITIVE" -> "Positive"
                          [] name = "NEGATIVE" -> "Negative"
                          [] name = "NEUTRAL" -> "Neutral"
                          [] OTHER -> Null

Raised == [raised |-> TRUE, summary |-> Null, sentiment |-> Null]

(* lines 79-83: summary_result[0].get('summary_text')                      *)
ProcessSummary(summary_result) ==
    IF Truthy(summary_result) /\ summary_result.t = "list"
    THEN LET first == summary_result.items[1]
         IN  IF first.t # "dict" THEN Raised
             ELSE IF first.has /\ first.summary_text # ""
                  THEN [raised |-> FALSE, summary |-> first.summary_text, sentiment |-> Null]
                  ELSE [raised |-> FALSE, summary |-> Null, sentiment |-> Null]
    ELSE [raised |-> FALSE, summary |-> Null, sentiment |-> Null]

(* lines 92-99: the loop that keeps the label of the highest score.        *)
(* acc = [raised, highest_score, best_label]                               *)
RECURSIVE BestLabel(_, _, _)
BestLabel(classifications, i, acc) ==
    IF i > Len(classifications) \/ acc.raised THEN acc
    ELSE LET c == classifications[i]
             score == IF c.score.has THEN c.score ELSE Score(0)
         IN  IF c.t # "dict" \/ ~score.num
                THEN [acc EXCEPT !.raised = TRUE]
                ELSE IF score.v > acc.highest_score
                     THEN BestLabel(classifications, i + 1,
                                    [raised |-> FALSE, highest_score |-> score.v,
                                     best_label |-> c.label])
                     ELSE BestLabel(classifications, i + 1, acc)

(* lines 86-107                                                            *)
ProcessSentiment(sentiment_result) ==
    IF /\ Truthy(sentiment_result) /\ sentiment_result.t = "list"
       /\ Truthy(sentiment_result.items[1]) /\ sentiment_result.items[1].t = "list"
    THEN LET best == BestLabel(sentiment_result.items[1].items, 1,
                               [raised |-> FALSE, highest_score |-> -1,
                                best_label |-> NoLabel])
         IN  IF best.raised THEN Raised
             ELSE IF ~best.best_label.has \/ best.best_label.v = ""
                  THEN [raised |-> FALSE, summary |-> Null, sentiment |-> Null]
             ELSE IF ~best.best_label.str THEN Raised
             ELSE IF Upper(best.best_label.v) \in SentimentNames
                  THEN [raised |-> FALSE, summary |-> Null,
                        sentiment |-> Upper(best.best_label.v)]
                  ELSE [raised |-> FALSE, summary |-> Null, sentiment |-> Null]
    ELSE [raised |-> FALSE, summary |-> Null, sentiment |-> Null]

(* line 74: results = await httpx.gather(...).  The httpx module has no    *)
(* attribute gather (asyncio.gather is the function meant), so evaluating  *)
(* httpx.gather raises AttributeError before either request is sent.       *)
HttpxHasGather == FALSE

analyze_content(sumOut, sentOut) ==
    IF ~HttpxHasGather THEN Raised
    ELSE LET s == ProcessSummary(query_model(sumOut))
             t == ProcessSentiment(query_model(sentOut))
         IN  IF s.raised \/ t.raised THEN Raised
             ELSE [raised |-> FALSE, summary |-> s.summary, sentiment |-> t.sentiment]

----------------------------------------------------------------------------
(* Queries of the handlers.                                                *)

(* select(User).where(User.email == email)                                 *)
UserByEmail(email) == {u \in users : u.email = email}

(* Variant: the owner filter of the list query is missing.                 *)
SelectByOwner_NoFilter(owner_id) == contents

(* select(Content).where(Content.owner_id == current_user.id)              *)
SelectByOwner(owner_id) == {c \in contents : c.owner_id = owner_id}

(* Variant: the point query filters by id only.                            *)
SelectOwnedById_IdOnly(content_id, owner_id) ==
    {c \in contents : c.id = content_id}

(* select(Content).where(Content.id == content_id)                         *)
(*                .where(Content.owner_id == current_user.id)              *)
SelectOwnedById(content_id, owner_id) ==
    {c \in contents : c.id = content_id /\ c.owner_id = owner_id}

ContentIds == 1..(MaxContents + 1)

----------------------------------------------------------------------------
(* Requests in flight.  pc is the await the handler is suspended at;       *)
(* events is the history of what a submit has done so far.                 *)

Reqs == 1..MaxRequests

Idle ==
    [op |-> "none", pc |-> "idle", email |-> "", password |-> NoPassword,
     uid |-> 0, raw |-> "", cid |-> 0, newId |-> 0, events |-> <<>>,
     result |-> [raised |-> FALSE, summary |-> Null, sentiment |-> Null],
     resp |-> Resp(0, "")]

Free(r) == reqs[r].pc \in {"idle", "done"}

Done(req, resp) == [req EXCEPT !.pc = "done", !.resp = resp]

----------------------------------------------------------------------------
Init ==
    /\ users = {}
    /\ nextUserId = 1
    /\ credentials = {}
    /\ contents = {}
    /\ nextContentId = 1
    /\ deleted = {}
    /\ now = 0
    /\ last = NoRequest
    /\ reqs = [r \in Reqs |-> Idle]

(* Variant: the existence check of the email is missing.                   *)
register_user_NoCheck(email, password) ==
    /\ nextUserId <= Cardinality(Emails)
    /\ LET new_user == [id |-> nextUserId, email |-> email,
                        hashed_password |-> get_password_hash(password),
                        is_active |-> TRUE]
       IN  /\ users' = users \cup {new_user}
           /\ nextUserId' = nextUserId + 1
           /\ credentials' = credentials \cup
                               {[email |-> email, password |-> password]}
           /\ last' = [NoRequest EXCEPT
                         !.op = "register", !.email = email,
                         !.password = password, !.uid = new_user.id,
                         !.resp = serialize_response(SignupResponseModel,
                                      UserModelAttrs, Resp(201, "Created"))]
    /\ UNCHANGED <<contents, nextContentId, deleted, now>>

(* POST /signup                                                            *)
register_user(email, password) ==
    IF UserByEmail(email) # {}
    THEN /\ last' = [NoRequest EXCEPT !.op = "register", !.email = email,
                                      !.password = password,
                                      !.resp = EmailAlreadyRegistered]
         /\ UNCHANGED <<users, nextUserId, credentials, contents, nextContentId, deleted, now>>
    ELSE /\ LET new_user == [id |-> nextUserId, email |-> email,
                             hashed_password |-> get_password_hash(password),
                             is_active |-> TRUE]
            IN  /\ users' = users \cup {new_user}
                /\ nextUserId' = nextUserId + 1
                /\ credentials' = credentials \cup
                                    {[email |-> email, password |-> password]}
                /\ last' = [NoRequest EXCEPT
                              !.op = "register", !.email = email,
                              !.password = password, !.uid = new_user.id,
                              !.resp = serialize_response(SignupResponseModel,
                                           UserModelAttrs, Resp(201, "Created"))]
         /\ UNCHANGED <<contents, nextContentId, deleted, now>>

(* Variant: an unknown email gets an answer of its own.                    *)
login_for_access_token_UserNotFound(email, password) ==
    /\ LET found == UserByEmail(email)
       IN  IF found = {}
           THEN last' = [NoRequest EXCEPT !.op = "login", !.email = email,
                                          !.password = password,
                                          !.resp = Resp(404, "User not found")]
           ELSE IF \A u \in found : ~verify_password(password, u.hashed_password)
           THEN last' = [NoRequest EXCEPT !.op = "login", !.email = email,
                                          !.password = password,
                                          !.resp = IncorrectEmailOrPassword]
           ELSE LET user == CHOOSE u \in found : TRUE
                IN  last' = [NoRequest EXCEPT
                               !.op = "login", !.email = email,
                               !.password = password, !.uid = user.id,
                               !.token = create_access_token(StrOf(user.id),
                                             ACCESS_TOKEN_EXPIRE_MINUTES),
                               !.resp = Resp(200, "bearer")]
    /\ UNCHANGED <<users, nextUserId, credentials, contents, nextContentId, deleted, now>>

(* POST /login                                                             *)
login_for_access_token(email, password) ==
    /\ LET found == UserByEmail(email)
       IN  IF found = {} \/ \A u \in found : ~verify_password(password, u.hashed_password)
           THEN last' = [NoRequest EXCEPT !.op = "login", !.email = email,
                                          !.password = password,
                                          !.resp = IncorrectEmailOrPassword]
           ELSE LET user == CHOOSE u \in found : TRUE
                IN  last' = [NoRequest EXCEPT
                               !.op = "login", !.email = email,
                               !.password = password, !.uid = user.id,
                               !.token = create_access_token(StrOf(user.id),
                                             ACCESS_TOKEN_EXPIRE_MINUTES),
                               !.resp = Resp(200, "bearer")]
    /\ UNCHANGED <<users, nextUserId, credentials, contents, nextContentId, deleted, now>>

(* POST /contents                                                          *)
create_content(token, raw_content, sumOut, sentOut) ==
    LET current_user == get_current_user(token)
        denied == [NoRequest EXCEPT !.op = "submit", !.tok = token]
        req == [denied EXCEPT !.raw = raw_content, !.sumOut = sumOut,
                              !.sentOut = sentOut]
    IN  IF ~current_user.ok
        THEN /\ last' = [denied EXCEPT !.resp = current_user.resp]
             /\ UNCHANGED <<users, nextUserId, credentials, contents, nextContentId, deleted, now>>
        ELSE /\ nextContentId <= MaxContents
             /\ LET new_content == [id |-> nextContentId,
                                    raw_content |-> raw_content,
                                    owner_id |-> current_user.id,
                                    summary |-> Null, sentiment |-> Null]
                    result == analyze_content(sumOut, sentOut)
                    merged == [new_content EXCEPT
                                 !.summary = result.summary,
                                 !.sentiment = SentimentValue(result.sentiment)]
                    final == IF ~result.raised /\ (result.summary # Null
                                                   \/ result.sentiment # Null)
                             THEN merged ELSE new_content
                IN  /\ contents' = contents \cup {final}
                    /\ nextContentId' = nextContentId + 1
                    /\ last' = [req EXCEPT
                                  !.uid = current_user.id,
                                  !.newId = new_content.id,
                                  !.analyzer = IF result.raised THEN "raised"
                                               ELSE "returned",
                                  !.rows = IF result.raised THEN {} ELSE {final},
                                  !.resp = IF result.raised THEN InternalServerError
                                           ELSE serialize_response(ContentBaseFields,
                                                    ContentAttrs, Resp(202, "Accepted"))]
             /\ UNCHANGED <<users, nextUserId, credentials, deleted, now>>

(* GET /contents                                                           *)
read_contents(token) ==
    /\ LET current_user == get_current_user(token)
           req == [NoRequest EXCEPT !.op = "list", !.tok = token]
       IN  IF ~current_user.ok
           THEN last' = [req EXCEPT !.resp = current_user.resp]
           ELSE last' = [req EXCEPT !.uid = current_user.id,
                                    !.rows = SelectByOwner(current_user.id),
                                    !.resp = Resp(200, "OK")]
    /\ UNCHANGED <<users, nextUserId, credentials, contents, nextContentId, deleted, now>>

(* GET /contents/{content_id}                                              *)
read_content_by_id(token, content_id) ==
    /\ LET current_user == get_current_user(token)
           req == [NoRequest EXCEPT !.op = "get", !.tok = token, !.cid = content_id]
       IN  IF ~current_user.ok
           THEN last' = [req EXCEPT !.resp = current_user.resp]
           ELSE LET content == SelectOwnedById(content_id, current_user.id)
                IN  IF content = {}
                    THEN last' = [req EXCEPT !.uid = current_user.id,
                                             !.resp = ContentNotFound]
                    ELSE last' = [req EXCEPT !.uid = current_user.id,
                                             !.rows = content,
                                             !.resp = Resp(200, "OK")]
    /\ UNCHANGED <<users, nextUserId, credentials, contents, nextContentId, deleted, now>>

(* Variant: the delete removes every row of the caller.                    *)
delete_content_AllOwned(token, content_id) ==
    LET current_user == get_current_user(token)
        req == [NoRequest EXCEPT !.op = "delete", !.tok = token, !.cid = content_id]
    IN  IF ~current_user.ok
        THEN /\ last' = [req EXCEPT !.resp = current_user.resp]
             /\ UNCHANGED <<users, nextUserId, credentials, contents, nextContentId, deleted, now>>
        ELSE LET content_to_delete == SelectOwnedById(content_id, current_user.id)
             IN  IF content_to_delete = {}
                 THEN /\ last' = [req EXCEPT !.uid = current_user.id,
                                             !.resp = ContentNotFound]
                      /\ UNCHANGED <<users, nextUserId, credentials, contents,
                                     nextContentId, deleted, now>>
                 ELSE /\ contents' = contents \ SelectByOwner(current_user.id)
                      /\ deleted' = deleted \cup {c.id : c \in SelectByOwner(current_user.id)}
                      /\ last' = [req EXCEPT !.uid = current_user.id,
                                             !.resp = Resp(204, "No Content")]
                      /\ UNCHANGED <<users, nextUserId, credentials, nextContentId, now>>

(* DELETE /contents/{content_id}                                           *)
delete_content(token, content_id) ==
    LET current_user == get_current_user(token)
        req == [NoRequest EXCEPT !.op = "delete", !.tok = token, !.cid = content_id]
    IN  IF ~current_user.ok
        THEN /\ last' = [req EXCEPT !.resp = current_user.resp]
             /\ UNCHANGED <<users, nextUserId, credentials, contents, nextContentId, deleted, now>>
        ELSE LET content_to_delete == SelectOwnedById(content_id, current_user.id)
             IN  IF content_to_delete = {}
                 THEN /\ last' = [req EXCEPT !.uid = current_user.id,
                                             !.resp = ContentNotFound]
                      /\ UNCHANGED <<users, nextUserId, credentials, contents,
                                     nextContentId, deleted, now>>
                 ELSE /\ contents' = contents \ content_to_delete
                      /\ deleted' = deleted \cup {c.id : c \in content_to_delete}
                      /\ last' = [req EXCEPT !.uid = current_user.id,
                                             !.resp = Resp(204, "No Content")]
                      /\ UNCHANGED <<users, nextUserId, credentials, nextContentId, now>>

(* The users.is_active column is written only from outside the service.    *)
set_is_active(id, active) ==
    /\ \E u \in users : u.id = id /\ u.is_active # active
    /\ users' = {IF u.id = id THEN [u EXCEPT !.is_active = active] ELSE u : u \in users}
    /\ last' = NoRequest
    /\ UNCHANGED <<nextUserId, credentials, contents, nextContentId, deleted, now>>

(* Time passes: datetime.utcnow() as read by create_access_token and by    *)
(* jwt.decode.                                                             *)
Tick ==
    /\ now + TickMinutes <= MaxTicks * TickMinutes
    /\ now' = now + TickMinutes
    /\ last' = NoRequest
    /\ UNCHANGED <<users, nextUserId, credentials, contents, nextContentId, deleted>>

----------------------------------------------------------------------------
(* Input sets of the specifications.                                       *)

OnePassword == {[pre |-> "secret", len |-> 6, suf |-> ""]}

(* Tokens as login issues them at time 0, and no token at all.             *)
IssuedTokens == [kind : {"jwt"}, sub : {StrOf(n) : n \in 1..Cardinality(Emails)},
                 exp : {ACCESS_TOKEN_EXPIRE_MINUTES}]

ProviderDown == [outcome |-> "timeout", json |-> JNone]

ProviderGood ==
    <<[outcome |-> "ok", json |-> JList(<<SumDict("Positive review of product")>>)],
      [outcome |-> "ok",
       json |-> JList(<<Inner("list", <<Classification(Label("POSITIVE"), Score(99))>>)>>)]>>

ProviderCases == {<<ProviderDown, ProviderDown>>, ProviderGood}

(* The content store under two owners: every endpoint, valid tokens.       *)
Next ==
    \/ \E email \in Emails, password \in OnePassword : register_user(email, password) /\ UNCHANGED reqs
    \/ \E email \in Emails, password \in OnePassword :
          login_for_access_token(email, password) /\ UNCHANGED reqs
    \/ \E token \in IssuedTokens \cup {MissingToken}, raw \in RawTexts,
          p \in ProviderCases : create_content(token, raw, p[1], p[2]) /\ UNCHANGED reqs
    \/ \E token \in IssuedTokens \cup {MissingToken} : read_contents(token) /\ UNCHANGED reqs
    \/ \E token \in IssuedTokens \cup {MissingToken}, content_id \in ContentIds :
          read_content_by_id(token, content_id) /\ UNCHANGED reqs
    \/ \E token \in IssuedTokens \cup {MissingToken}, content_id \in ContentIds :
          delete_content(token, content_id) /\ UNCHANGED reqs

Spec == Init /\ [][Next]_vars

(* Authentication: every kind of token, the clock, the is_active column.   *)
AuthContentIds == 1..MaxAuthContents

NextAuth ==
    \/ \E email \in Emails, password \in Passwords : register_user(email, password) /\ UNCHANGED reqs
    \/ \E email \in Emails, password \in Passwords :
          login_for_access_token(email, password) /\ UNCHANGED reqs
    \/ \E token \in Tokens :
          /\ nextContentId <= MaxAuthContents
          /\ create_content(token, "Great product", ProviderDown, ProviderDown) /\ UNCHANGED reqs
    \/ \E token \in Tokens : read_contents(token) /\ UNCHANGED reqs
    \/ \E token \in Tokens, content_id \in AuthContentIds :
          read_content_by_id(token, content_id) /\ UNCHANGED reqs
    \/ \E token \in Tokens, content_id \in AuthContentIds :
          delete_content(token, content_id) /\ UNCHANGED reqs
    \/ \E id \in 1..Cardinality(Emails), active \in BOOLEAN : set_is_active(id, active) /\ UNCHANGED reqs
    \/ Tick /\ UNCHANGED reqs

SpecAuth == Init /\ [][NextAuth]_vars

(* The analyzer: one submitter, every provider outcome.                    *)
NextAnalyzer ==
    \/ \E password \in OnePassword : register_user("a@x.io", password) /\ UNCHANGED reqs
    \/ \E password \in OnePassword : login_for_access_token("a@x.io", password) /\ UNCHANGED reqs
    \/ \E token \in IssuedTokens, raw \in RawTexts,
          sumOut \in SummaryOutcomes, sentOut \in SentimentOutcomes :
            create_content(token, raw, sumOut, sentOut) /\ UNCHANGED reqs
    \/ \E token \in IssuedTokens, content_id \in ContentIds :
          read_content_by_id(token, content_id) /\ UNCHANGED reqs

SpecAnalyzer == Init /\ [][NextAnalyzer]_vars

----------------------------------------------------------------------------
(* Requests served in parallel.  Every await of a handler is a point at    *)
(* which the event loop may run a step of another request; each request    *)
(* has a database session of its own and sees what the others committed.   *)

Set(r, req) == reqs' = [reqs EXCEPT ![r] = req]

(* register_user, lines 76-83: the existence check.                        *)
register_check(r, email, password) ==
    /\ Free(r)
    /\ LET req == [Idle EXCEPT !.op = "register", !.email = email,
                               !.password = password]
       IN  IF UserByEmail(email) # {}
           THEN Set(r, Done(req, EmailAlreadyRegistered))
           ELSE Set(r, [req EXCEPT !.pc = "insert"])
    /\ UNCHANGED <<users, nextUserId, credentials, contents, nextContentId,
                   deleted, now, last>>

(* Variant: the users table has no unique index on email.                  *)
register_insert_NoUniqueIndex(r) ==
    /\ reqs[r].op = "register" /\ reqs[r].pc = "insert"
    /\ LET new_user == [id |-> nextUserId, email |-> reqs[r].email,
                        hashed_password |-> get_password_hash(reqs[r].password),
                        is_active |-> TRUE]
       IN  /\ users' = users \cup {new_user}
           /\ nextUserId' = nextUserId + 1
           /\ credentials' = credentials \cup
                  {[email |-> reqs[r].email, password |-> reqs[r].password]}
           /\ Set(r, Done([reqs[r] EXCEPT !.uid = new_user.id],
                          serialize_response(SignupResponseModel, UserModelAttrs,
                                             Resp(201, "Created"))))
    /\ UNCHANGED <<contents, nextContentId, deleted, now, last>>

(* register_user, lines 86-99: db.add and commit.  users.email is declared *)
(* unique=True, so the INSERT of an email that another request committed   *)
(* since the check fails with IntegrityError, which nothing catches.       *)
register_insert(r) ==
    /\ reqs[r].op = "register" /\ reqs[r].pc = "insert"
    /\ IF UserByEmail(reqs[r].email) # {}
       THEN /\ Set(r, Done(reqs[r], InternalServerError))
            /\ UNCHANGED <<users, nextUserId, credentials>>
       ELSE LET new_user == [id |-> nextUserId, email |-> reqs[r].email,
                             hashed_password |-> get_password_hash(reqs[r].password),
                             is_active |-> TRUE]
            IN  /\ users' = users \cup {new_user}
                /\ nextUserId' = nextUserId + 1
                /\ credentials' = credentials \cup
                       {[email |-> reqs[r].email, password |-> reqs[r].password]}
                /\ Set(r, Done([reqs[r] EXCEPT !.uid = new_user.id],
                               serialize_response(SignupResponseModel, UserModelAttrs,
                                                  Resp(201, "Created"))))
    /\ UNCHANGED <<contents, nextContentId, deleted, now, last>>

(* Variant: the analyzer is called before the row is saved.                *)
submit_start_AnalyzeFirst(r, token, raw_content) ==
    /\ Free(r)
    /\ LET current_user == get_current_user(token)
           req == [Idle EXCEPT !.op = "submit", !.raw = raw_content]
       IN  IF ~current_user.ok
           THEN Set(r, Done(req, current_user.resp))
           ELSE Set(r, [req EXCEPT !.uid = current_user.id, !.pc = "analyze"])
    /\ UNCHANGED <<users, nextUserId, credentials, contents, nextContentId,
                   deleted, now, last>>

(* create_content, line 134: the get_current_user dependency.              *)
submit_start(r, token, raw_content) ==
    /\ Free(r)
    /\ LET current_user == get_current_user(token)
           req == [Idle EXCEPT !.op = "submit", !.raw = raw_content]
       IN  IF ~current_user.ok
           THEN Set(r, Done(req, current_user.resp))
           ELSE Set(r, [req EXCEPT !.uid = current_user.id, !.pc = "persist"])
    /\ UNCHANGED <<users, nextUserId, credentials, contents, nextContentId,
                   deleted, now, last>>

(* create_content, lines 141-146: db.add and the first commit.             *)
submit_persist(r) ==
    /\ reqs[r].op = "submit" /\ reqs[r].pc = "persist"
    /\ nextContentId <= MaxConcContents
    /\ contents' = contents \cup
          {[id |-> nextContentId, raw_content |-> reqs[r].raw,
            owner_id |-> reqs[r].uid, summary |-> Null, sentiment |-> Null]}
    /\ nextContentId' = nextContentId + 1
    /\ Set(r, [reqs[r] EXCEPT !.newId = nextContentId, !.pc = "refresh",
                              !.events = Append(@, "persist")])
    /\ UNCHANGED <<users, nextUserId, credentials, deleted, now, last>>

RowOf(r) == {c \in contents : c.id = reqs[r].newId}

(* create_content, line 147: db.refresh selects the row again and raises   *)
(* InvalidRequestError when it is gone.                                    *)
submit_refresh(r) ==
    /\ reqs[r].op = "submit" /\ reqs[r].pc = "refresh"
    /\ IF RowOf(r) = {}
       THEN Set(r, Done(reqs[r], InternalServerError))
       ELSE Set(r, [reqs[r] EXCEPT !.pc = "analyze"])
    /\ UNCHANGED <<users, nextUserId, credentials, contents, nextContentId,
                   deleted, now, last>>

(* create_content, lines 150-153: await analyze_content and the test of    *)
(* its result.                                                             *)
submit_analyze(r, sumOut, sentOut) ==
    /\ reqs[r].op = "submit" /\ reqs[r].pc = "analyze"
    /\ LET result == analyze_content(sumOut, sentOut)
           req == [reqs[r] EXCEPT !.result = result,
                                  !.events = Append(@, "analyze")]
       IN  IF result.raised
           THEN Set(r, Done(req, InternalServerError))
           ELSE IF result.summary # Null \/ result.sentiment # Null
                THEN Set(r, [req EXCEPT !.pc = "merge"])
                ELSE Set(r, [req EXCEPT !.pc = "respond"])
    /\ UNCHANGED <<users, nextUserId, credentials, contents, nextContentId,
                   deleted, now, last>>

(* create_content, lines 154-157: the UPDATE of the second commit; it      *)
(* raises StaleDataError when the row is gone.                             *)
submit_merge(r) ==
    /\ reqs[r].op = "submit" /\ reqs[r].pc = "merge"
    /\ IF RowOf(r) = {}
       THEN /\ Set(r, Done(reqs[r], InternalServerError))
            /\ UNCHANGED contents
       ELSE /\ contents' = {IF c.id = reqs[r].newId
                            THEN [c EXCEPT !.summary = reqs[r].result.summary,
                                           !.sentiment =
                                              SentimentValue(reqs[r].result.sentiment)]
                            ELSE c : c \in contents}
            /\ Set(r, [reqs[r] EXCEPT !.pc = "respond",
                                      !.events = Append(@, "merge")])
    /\ UNCHANGED <<users, nextUserId, credentials, nextContentId, deleted, now, last>>

(* create_content, lines 158-160: the last refresh and the response.       *)
submit_respond(r) ==
    /\ reqs[r].op = "submit" /\ reqs[r].pc = "respond"
    /\ IF RowOf(r) = {} /\ "merge" \in {reqs[r].events[i] : i \in 1..Len(reqs[r].events)}
       THEN Set(r, Done(reqs[r], InternalServerError))
       ELSE Set(r, Done(reqs[r], serialize_response(ContentBaseFields, ContentAttrs,
                                                    Resp(202, "Accepted"))))
    /\ UNCHANGED <<users, nextUserId, credentials, contents, nextContentId,
                   deleted, now, last>>

(* read_contents and read_content_by_id: one query each.                   *)
read_step(r, token, content_id) ==
    /\ Free(r)
    /\ LET current_user == get_current_user(token)
           req == [Idle EXCEPT !.op = "get"]
       IN  IF ~current_user.ok
           THEN Set(r, Done(req, current_user.resp))
           ELSE IF SelectOwnedById(content_id, current_user.id) = {}
                THEN Set(r, Done(req, ContentNotFound))
                ELSE Set(r, Done(req, Resp(200, "OK")))
    /\ UNCHANGED <<users, nextUserId, credentials, contents, nextContentId,
                   deleted, now, last>>

list_step(r, token) ==
    /\ Free(r)
    /\ LET current_user == get_current_user(token)
           req == [Idle EXCEPT !.op = "list"]
       IN  IF ~current_user.ok
           THEN Set(r, Done(req, current_user.resp))
           ELSE Set(r, Done(req, Resp(200, "OK")))
    /\ UNCHANGED <<users, nextUserId, credentials, contents, nextContentId,
                   deleted, now, last>>

(* delete_content, lines 211-221: the select.                              *)
delete_select(r, token, content_id) ==
    /\ Free(r)
    /\ LET current_user == get_current_user(token)
           req == [Idle EXCEPT !.op = "delete", !.cid = content_id]
       IN  IF ~current_user.ok
           THEN Set(r, Done(req, current_user.resp))
           ELSE IF SelectOwnedById(content_id, current_user.id) = {}
                THEN Set(r, Done([req EXCEPT !.uid = current_user.id], ContentNotFound))
                ELSE Set(r, [req EXCEPT !.uid = current_user.id, !.pc = "commit"])
    /\ UNCHANGED <<users, nextUserId, credentials, contents, nextContentId,
                   deleted, now, last>>

(* delete_content, lines 223-225: db.delete and commit.  A DELETE that     *)
(* matches no row any more is a warning, not an error.                     *)
delete_commit(r) ==
    /\ reqs[r].op = "delete" /\ reqs[r].pc = "commit"
    /\ contents' = {c \in contents : c.id # reqs[r].cid}
    /\ deleted' = deleted \cup {c.id : c \in contents \ contents'}
    /\ Set(r, Done(reqs[r], Resp(204, "No Content")))
    /\ UNCHANGED <<users, nextUserId, credentials, nextContentId, now, last>>

\* Concurrent signups contend for one address: the race is between requests
\* carrying the same email.
ConcEmails == {"a@x.io"}

ConcContentIds == 1..MaxConcContents

(* submit_merge and submit_respond are not among the steps: analyze_content *)
(* raises on every call, so submit_analyze leaves no request at merge or   *)
(* respond (NoRequestPastAnalyze).                                         *)
NextConc ==
    \/ \E r \in Reqs, email \in ConcEmails, password \in OnePassword :
          register_check(r, email, password)
    \/ \E r \in Reqs : register_insert(r)
    \/ \E r \in Reqs, token \in IssuedTokens : submit_start(r, token, "Great product")
    \/ \E r \in Reqs : submit_persist(r)
    \/ \E r \in Reqs : submit_refresh(r)
    \/ \E r \in Reqs, p \in ProviderCases : submit_analyze(r, p[1], p[2])
    \/ \E r \in Reqs, token \in IssuedTokens, content_id \in ConcContentIds :
          read_step(r, token, content_id)
    \/ \E r \in Reqs, token \in IssuedTokens : list_step(r, token)
    \/ \E r \in Reqs, token \in IssuedTokens, content_id \in ConcContentIds :
          delete_select(r, token, content_id)
    \/ \E r \in Reqs : delete_commit(r)

SpecConc == Init /\ [][NextConc]_vars

----------------------------------------------------------------------------
(* Properties.                                                             *)

Protected == {"submit", "list", "get", "delete"}

(* The request of the step was served under a resolved identity.           *)
Authenticated(r) == r.uid # 0

(* C1: a get or a delete of a content id issued with the identity of a     *)
(* user who does not own the row is answered NotFound, the answer an id    *)
(* that does not exist gets, and the step leaves the store as it was.      *)
C1_CrossOwnerNotFound ==
    [][ (/\ last'.op \in {"get", "delete"}
         /\ Authenticated(last')
         /\ \A c \in contents : c.id = last'.cid => c.owner_id # last'.uid)
        => /\ last'.resp = ContentNotFound
           /\ contents' = contents ]_vars

C1_Witness ==
    /\ last.op = "delete"
    /\ Authenticated(last)
    /\ \E c \in contents : c.id = last.cid /\ c.owner_id # last.uid
    /\ last.resp = ContentNotFound

(* C3: the list answered to user U is exactly the set of rows of the       *)
(* store whose owner_id is U's id.                                         *)
C3_ListExactlyOwned ==
    (last.op = "list" /\ Authenticated(last))
    => /\ last.resp.status = 200
       /\ \A c \in contents : c \in last.rows <=> c.owner_id = last.uid
       /\ last.rows \subseteq contents

C3_Witness ==
    /\ last.op = "list"
    /\ Authenticated(last)
    /\ last.rows # {}
    /\ deleted # {}
    /\ \E c \in contents : c.owner_id # last.uid

(* C10: a delete removes the row with the given id owned by the caller,    *)
(* and only that row, when there is one, and otherwise answers NotFound    *)
(* and changes nothing; an id once deleted is NotFound for every later get *)
(* and delete and is in no list.                                           *)
C10_Delete ==
    [][ /\ (last'.op = "delete" /\ Authenticated(last'))
           => LET target == {c \in contents : c.id = last'.cid
                                              /\ c.owner_id = last'.uid}
              IN  IF target # {}
                  THEN /\ last'.resp.status = 204
                       /\ contents' = contents \ target
                       /\ Cardinality(target) = 1
                  ELSE /\ last'.resp = ContentNotFound
                       /\ contents' = contents
        /\ (last'.op \in {"get", "delete"} /\ Authenticated(last')
            /\ last'.cid \in deleted)
           => last'.resp = ContentNotFound
        /\ (last'.op = "list") => \A c \in last'.rows : c.id \notin deleted'
      ]_vars

C10_Witness ==
    /\ last.op = "delete"
    /\ Authenticated(last)
    /\ last.cid \in deleted
    /\ last.resp = ContentNotFound
    /\ contents # {}

(* C4: registering a fresh email answers 201 with that email, a login with *)
(* the same credentials answers 200 with a bearer token, and the token     *)
(* resolves to the user the register created.                              *)
C4_RegisterLoginResolve ==
    /\ (last.op = "register" /\ last.uid # 0)
       => /\ last.resp.status = 201
          /\ \E u \in users : u.id = last.uid /\ u.email = last.email
    /\ (/\ last.op = "login"
        /\ [email |-> last.email, password |-> last.password] \in credentials
        /\ \A u \in users : u.is_active)
       => /\ last.resp = Resp(200, "bearer")
          /\ get_current_user(last.token).ok
          /\ \E u \in users : /\ u.email = last.email
                              /\ u.id = get_current_user(last.token).id

(* C5: a register whose email is already in the users table is answered    *)
(* Conflict ("Email already registered."), whatever the password, and      *)
(* leaves the users table as it was.                                       *)
C5_DuplicateEmailConflict ==
    [][ (last'.op = "register" /\ \E u \in users : u.email = last'.email)
        => /\ last'.resp = EmailAlreadyRegistered
           /\ users' = users
           /\ nextUserId' = nextUserId ]_vars

C5_Witness ==
    /\ last.op = "register"
    /\ last.resp = EmailAlreadyRegistered
    /\ \E u \in users : /\ u.email = last.email
                        /\ ~verify_password(last.password, u.hashed_password)
    /\ Cardinality(users) = 1

(* The failed-login outcome: response, no token, no identity.              *)
LoginRefused(r) ==
    /\ r.resp = IncorrectEmailOrPassword
    /\ r.token = NoToken
    /\ r.uid = 0

(* C6 as stated: a login with an email that was never registered, and a    *)
(* login with a registered email and any password other than the           *)
(* registered one, get the same InvalidCredentials answer and no token.    *)
C6_WrongPasswordRefused ==
    (/\ last.op = "login"
     /\ \A cr \in credentials : cr.email = last.email => cr.password # last.password)
    => LoginRefused(last)

(* C6 amended: the same, for a password that differs from the registered   *)
(* one within its first 72 bytes.                                          *)
C6_LoginIndistinguishable ==
    (/\ last.op = "login"
     /\ \A cr \in credentials :
            cr.email = last.email => Truncate72(cr.password) # Truncate72(last.password))
    => LoginRefused(last)

C6_Witness ==
    /\ last.op = "login"
    /\ \E cr \in credentials : /\ cr.email = last.email
                               /\ Truncate72(cr.password) # Truncate72(last.password)
    /\ \E e \in Emails : \A cr \in credentials : cr.email # e
    /\ LoginRefused(last)

(* The causes for which a bearer token names no live, active user.         *)
TokenUser(token) == {u \in users : StrOf(u.id) = token.sub}

Unverifiable(token) ==
    \/ token.kind = "malformed"
    \/ token.kind = "jwt" /\ token.exp < now
    \/ token.kind = "jwt" /\ token.sub = NoSub
    \/ token.kind = "jwt" /\ TokenUser(token) = {}

Inactive(token) ==
    /\ token.kind = "jwt"
    /\ ~Unverifiable(token)
    /\ \E u \in TokenUser(token) : ~u.is_active

Denied(token) == token.kind = "missing" \/ Unverifiable(token) \/ Inactive(token)

(* C7 as stated: every protected operation whose token is missing,         *)
(* malformed, expired, without subject, of an unknown user or of an        *)
(* inactive user gets one and the same answer, and reads no row.           *)
C7_OneUnauthenticatedOutcome ==
    (last.op \in Protected /\ Denied(last.tok))
    => /\ \A t \in Tokens : Denied(t) => get_current_user(t).resp = last.resp
       /\ last.rows = {}

(* C7 amended: such a request fails without reading, creating or deleting  *)
(* a row; the answer is 401 "Not authenticated" for a missing token, 401   *)
(* "Could not validate credentials" for a malformed or expired token, one  *)
(* without subject or of an unknown user, and 400 "Inactive user" for an   *)
(* otherwise valid token of an inactive user.                              *)
C7_DeniedWithoutEffect ==
    [][ (last'.op \in Protected /\ Denied(last'.tok))
        => /\ last'.resp = IF last'.tok.kind = "missing" THEN NotAuthenticated
                           ELSE IF Unverifiable(last'.tok) THEN credentials_exception
                           ELSE InactiveUser
           /\ last'.rows = {}
           /\ last'.uid = 0
           /\ contents' = contents
           /\ nextContentId' = nextContentId
           /\ deleted' = deleted ]_vars

C7_Witness ==
    /\ last.op = "delete"
    /\ Inactive(last.tok)
    /\ last.resp = InactiveUser
    /\ \E c \in contents : c.id = last.cid /\ StrOf(c.owner_id) = last.tok.sub

(* The row a submit created, as the store holds it.                        *)
Stored(r) == {c \in contents : c.id = r.newId}

ProviderFailed(r) == r.sumOut.outcome # "ok" /\ r.sentOut.outcome # "ok"

(* C2: a submit by an authenticated user stores a row with the submitted   *)
(* text and is answered with success, also when the provider fails; the    *)
(* stored and returned record then has summary and sentiment null.         *)
C2_SubmitAlwaysSucceeds ==
    (last.op = "submit" /\ Authenticated(last))
    => /\ last.resp.status = 202
       /\ \E c \in Stored(last) : c.raw_content = last.raw /\ c.owner_id = last.uid
       /\ ProviderFailed(last)
          => /\ \A c \in Stored(last) : c.summary = Null /\ c.sentiment = Null
             /\ \A c \in last.rows : c.summary = Null /\ c.sentiment = Null
             /\ last.rows # {}

(* The label the provider's classification response names: the label of    *)
(* the entry with the highest score, for a response of the expected shape. *)
WellFormed(out) ==
    /\ out.outcome = "ok"
    /\ out.json.t = "list" /\ Len(out.json.items) > 0
    /\ out.json.items[1].t = "list" /\ Len(out.json.items[1].items) > 0
    /\ \A i \in 1..Len(out.json.items[1].items) :
          LET c == out.json.items[1].items[i]
          IN  c.t = "dict" /\ c.label.has /\ c.label.str /\ c.score.has /\ c.score.num

NamedLabel(out) ==
    LET cs == out.json.items[1].items
        top == CHOOSE i \in 1..Len(cs) : \A j \in 1..Len(cs) : cs[i].score.v >= cs[j].score.v
    IN  cs[top].label.v

(* C8: when the provider names POSITIVE, NEGATIVE or NEUTRAL in any        *)
(* casing, the stored and returned row carries that Sentiment; when it     *)
(* names another label, the stored sentiment is null; the submit succeeds  *)
(* in both cases.                                                          *)
C8_SentimentCanonical ==
    (last.op = "submit" /\ Authenticated(last) /\ WellFormed(last.sentOut))
    => /\ last.resp.status = 202
       /\ \A c \in Stored(last) \cup last.rows :
            c.sentiment = IF Upper(NamedLabel(last.sentOut)) \in SentimentNames
                          THEN SentimentValue(Upper(NamedLabel(last.sentOut)))
                          ELSE Null
       /\ Stored(last) # {} /\ last.rows # {}

(* C9: analyze_content never raises, whatever the provider answers.        *)
C9_AnalyzerNeverRaises ==
    (last.op = "submit" /\ Authenticated(last)) => last.analyzer = "returned"

----------------------------------------------------------------------------
(* Properties of the requests served in parallel.                          *)

NoRequestPastAnalyze == \A r \in Reqs : reqs[r].pc \notin {"merge", "respond"}

(* C11: within one submit the first commit, which gives the row its id,    *)
(* comes before the analyzer is invoked, the analyzer has returned before  *)
(* a merging commit is attempted, and the row is merged at most once, and  *)
(* only when the summary or the sentiment is not null.                     *)
C11_SubmitOrder ==
    \A r \in Reqs :
        reqs[r].op = "submit"
        => LET e == reqs[r].events
           IN  /\ e \in {<<>>, <<"persist">>, <<"persist", "analyze">>,
                         <<"persist", "analyze", "merge">>}
               /\ reqs[r].pc \in {"analyze", "merge", "respond"} => Len(e) >= 1
               /\ Len(e) >= 1
                  => /\ reqs[r].newId \in 1..(nextContentId - 1)
                     /\ \/ \E c \in contents : c.id = reqs[r].newId
                        \/ reqs[r].newId \in deleted
               /\ Len(e) = 3
                  => /\ ~reqs[r].result.raised
                     /\ \/ reqs[r].result.summary # Null
                        \/ reqs[r].result.sentiment # Null

C11_Witness ==
    \E r \in Reqs :
        /\ reqs[r].op = "submit"
        /\ reqs[r].events = <<"persist", "analyze">>
        /\ reqs[r].pc = "done"
        /\ \E c \in contents : /\ c.id = reqs[r].newId
                               /\ c.summary = Null /\ c.sentiment = Null

(* A summarization response of the expected shape.                         *)
SummaryOk(out) ==
    /\ out.outcome = "ok"
    /\ out.json.t = "list" /\ Len(out.json.items) > 0
    /\ out.json.items[1].t = "dict"
    /\ out.json.items[1].has /\ out.json.items[1].summary_text # ""

Recognized(out) == WellFormed(out) /\ Upper(NamedLabel(out)) \in SentimentNames

(* C12: the two sub-requests of one analyze_content call are independent:  *)
(* when exactly one of them fails (timeout, error status, invalid JSON)    *)
(* and the other succeeds, the submit stores and returns the field of the  *)
(* one that succeeded and null for the one that failed.                    *)
C12_PartialResultStored ==
    (last.op = "submit" /\ Authenticated(last))
    => /\ (SummaryOk(last.sumOut) /\ last.sentOut.outcome # "ok")
          => /\ last.resp.status = 202
             /\ Stored(last) # {} /\ last.rows # {}
             /\ \A c \in Stored(last) \cup last.rows :
                   /\ c.summary = last.sumOut.json.items[1].summary_text
                   /\ c.sentiment = Null
       /\ (last.sumOut.outcome # "ok" /\ Recognized(last.sentOut))
          => /\ last.resp.status = 202
             /\ Stored(last) # {} /\ last.rows # {}
             /\ \A c \in Stored(last) \cup last.rows :
                   /\ c.summary = Null
                   /\ c.sentiment = SentimentValue(Upper(NamedLabel(last.sentOut)))

(* The submit of request r is between its first commit and its merge.      *)
InWindow(r) ==
    /\ reqs[r].op = "submit"
    /\ reqs[r].pc \in {"refresh", "analyze", "merge"}

(* C13: while a submit is between its first commit and its merging commit, *)
(* no step of another request changes or removes the row it created, so    *)
(* that the row is there for the merging commit to find.                   *)
C13_RowKeptDuringSubmit ==
    [][ \A r \in Reqs :
          (InWindow(r) /\ reqs'[r] = reqs[r])
          => /\ RowOf(r) # {}
             /\ {c \in contents' : c.id = reqs[r].newId} = RowOf(r) ]_vars

(* C14: under every interleaving of register requests, each an existence   *)
(* check followed by a separate insert and commit, the users table holds   *)
(* at most one row per email, and of two registers of the same email in    *)
(* flight together at most one creates a user.                             *)
C14_OneUserPerEmail ==
    /\ \A u1, u2 \in users : u1.email = u2.email => u1 = u2
    /\ \A r1, r2 \in Reqs :
          (/\ r1 # r2
           /\ reqs[r1].op = "register" /\ reqs[r2].op = "register"
           /\ reqs[r1].email = reqs[r2].email)
          => ~(reqs[r1].uid # 0 /\ reqs[r2].uid # 0)

(* Two registers of one email both passed the check; one inserted the row, *)
(* the insert of the other was refused by the unique index.                *)
C14_Witness ==
    \E r1, r2 \in Reqs :
        /\ r1 # r2
        /\ reqs[r1].op = "register" /\ reqs[r2].op = "register"
        /\ reqs[r1].email = reqs[r2].email
        /\ reqs[r1].pc = "done" /\ reqs[r1].uid # 0
        /\ reqs[r2].pc = "done" /\ reqs[r2].uid = 0
        /\ reqs[r2].resp = InternalServerError
        /\ Cardinality({u \in users : u.email = reqs[r1].email}) = 1

====
